---- MODULE Spec2Model ----
(***************************************************************************)
(* Model of the point-charge collection of EMField_Simulation.py (class    *)
(* Charges), of the seeding of its field lines and of the mouse handlers   *)
(* of MyMplWidget.                                                         *)
(*                                                                         *)
(* Coordinates, magnitudes and limits are integers, so that the squared    *)
(* distances of get_closest are exact.  Python indices are 0-based; the    *)
(* charge with index k is element k+1 of the sequences q and pos.          *)
(* Angles are exact rationals in units of pi: <<a, b>> stands for a*pi/b.  *)
(***************************************************************************)
EXTENDS Integers, Sequences, FiniteSets, TLC

\* ---------------------------------------------------------------- bounds
MaxCharges == 3
MaxSnapCharges == 2
MaxLines == 4
MaxGuiCharges == 5
MaxFaults == 2

\* ------------------------------------------------------ program constants
DefaultLines == 32
DragLines == 8
\* limit=0.2 of on_mouse_press; the widget's coordinates are in tenths
HitLimit == 2

\* ---------------------------------------------------------------- inputs
Magnitudes == {-1, 1}
TraceMagnitudes == {-1, 0, 1}
Coords == {0, 1}
Positions == Coords \X Coords
TracePositions == {<<0, 0>>, <<1, 0>>}
Indices == (-1)..MaxCharges
Limits == {-1, 0, 1, 2}
LineCounts == (1..MaxLines) \cup {DragLines, DefaultLines}
\* Pointer positions inside the axes, in tenths: on the charge at (1, 0), at
\* 0.1 from it, and far from every charge.
EventPoints == {<<10, 0>>, <<11, 0>>, <<25, 0>>}
\* Event coordinates: a point inside the axes, or None outside them.
EventCoords == {[set |-> TRUE, xy |-> xy] : xy \in EventPoints}
               \cup {[set |-> FALSE, xy |-> <<0, 0>>]}

VARIABLES
    q,            \* self._q: the magnitudes
    pos,          \* self._pos: the positions, row k+1 is the position of charge k
    call,         \* the last call made on the object, with its arguments and result
    prev_q,       \* self._q before the last call
    prev_pos,     \* self._pos before the last call
    removal,      \* when the last call is an add_charge that directly follows a
                  \* delete_charge which removed a charge: the index removed and
                  \* the charge set that delete_charge found
    snap,         \* the list returned by the last get_charges, seen now
    snap_ret,     \* the same list as it was when get_charges returned
    snap_alias,   \* the position views of snap are views of the live self._pos
    fieldlines,   \* the list returned by the last field_lines
    mouse_pressed_pos,  \* MyMplWidget.mouse_pressed_pos
    closest_k,    \* MyMplWidget.closest_k
    dragging,     \* MyMplWidget.dragging
    qadd,         \* MyMplWidget.qadd, in tenths
    ev,           \* the mouse event handled last
    fault,        \* the exception the last handler ended with, or "none"
    faults,       \* the number of handlers that ended with an exception
    gesture       \* the press inside the axes that the last event followed or
                  \* closed, and what followed it

gui == <<mouse_pressed_pos, closest_k, dragging, qadd, ev, fault, faults, gesture>>
vars == <<q, pos, call, prev_q, prev_pos, removal, snap, snap_ret, snap_alias,
          fieldlines, gui>>
log == <<call, prev_q, prev_pos, removal>>
snapshot == <<snap, snap_ret, snap_alias>>

\* ------------------------------------------------------------ result values
None == [kind |-> "None", val |-> 0]
Index(i) == [kind |-> "index", val |-> i]
ValueError == [kind |-> "ValueError", val |-> 0]

\* The record of a call: k an index, mag a magnitude or a limit or a line count,
\* xy a position, ret the value returned (ValueError for an add_charge: its
\* position argument was None).
Call(op, k, mag, xy, ret) == [op |-> op, k |-> k, mag |-> mag, xy |-> xy, ret |-> ret]
NoCall == Call("__init__", 0, 0, <<0, 0>>, None)
NoRemoval == [k |-> -1, q |-> <<>>, pos |-> <<>>]

\* ----------------------------------------------------------- numpy helpers
np_delete_last(s, k) == SubSeq(s, 1, Len(s) - 1)

\* np.delete(arr, k): a new array without element k; a negative k counts from
\* the end.  (An index outside -n..n-1 is an IndexError in numpy, which leaves
\* the array as it is; the caller records the exception.)
np_delete(s, k) ==
    LET i == IF k < 0 THEN k + Len(s) ELSE k
    IN  IF i >= 0 /\ i < Len(s)
        THEN [j \in 1..(Len(s) - 1) |-> IF j <= i THEN s[j] ELSE s[j + 1]]
        ELSE s

set_row_all(s, k, xy) == [j \in 1..Len(s) |-> xy]

\* arr[k, :] = xy: row k overwritten in place; a negative k counts from the end
\* (an index outside -n..n-1 is an IndexError, which leaves the array as it is).
set_row(s, k, xy) ==
    LET i == IF k < 0 THEN k + Len(s) ELSE k
    IN  [j \in 1..Len(s) |-> IF j = i + 1 THEN xy ELSE s[j]]

ValidIndex_NoLowerBound(k, n) == k < n

\* The guard of delete_charge and set_position.
ValidIndex(k, n) == k >= 0 /\ k < n

\* The float nan, which a None written into self._pos becomes; no coordinate
\* of the model has this value.
NaN == -1000
IsNaN(xy) == xy[1] = NaN \/ xy[2] = NaN

\* np.sum(r**2, axis=1) with r = xy - self._pos; a row with a nan sums to nan
SqDist(xy, p) ==
    [i \in 1..Len(p) |->
        IF IsNaN(p[i])
        THEN NaN
        ELSE (xy[1] - p[i][1]) * (xy[1] - p[i][1])
             + (xy[2] - p[i][2]) * (xy[2] - p[i][2])]

\* np.argmin(d): the first index of the least element (0-based); a nan counts
\* as the least element
argmin(d) ==
    IF \E i \in 1..Len(d) : d[i] = NaN
    THEN (CHOOSE i \in 1..Len(d) :
            d[i] = NaN /\ \A j \in 1..(i - 1) : d[j] # NaN) - 1
    ELSE (CHOOSE i \in 1..Len(d) :
            /\ \A j \in 1..Len(d) : d[i] <= d[j]
            /\ \A j \in 1..(i - 1) : d[j] > d[i]) - 1

\* Charges.get_closest (nan < limit**2 is False)
get_closest(p, xy, limit) ==
    IF Len(p) = 0
    THEN ValueError
    ELSE LET d == SqDist(xy, p)
             qidx == argmin(d)
         IN  IF d[qidx + 1] # NaN /\ d[qidx + 1] < limit * limit
             THEN Index(qidx)
             ELSE None

\* Charges.get_charges: the list of (charge, position) tuples
get_charges(qs, p) == [k \in 1..Len(qs) |-> [q |-> qs[k], xy |-> p[k]]]

\* ------------------------------------------------- angles, in units of pi
RECURSIVE Gcd(_, _)
Gcd(a, b) == IF b = 0 THEN a ELSE Gcd(b, a % b)
Abs(a) == IF a < 0 THEN -a ELSE a
\* A fraction in lowest terms with a positive denominator.
Norm(r) ==
    LET g == Gcd(Abs(r[1]), Abs(r[2]))
        sgn == IF r[2] < 0 THEN -1 ELSE 1
    IN  <<sgn * (r[1] \div g), sgn * (r[2] \div g)>>
RAdd(a, b) == Norm(<<a[1] * b[2] + b[1] * a[2], a[2] * b[2]>>)
RSub(a, b) == Norm(<<a[1] * b[2] - b[1] * a[2], a[2] * b[2]>>)
RMul(a, b) == Norm(<<a[1] * b[1], a[2] * b[2]>>)
RDiv(a, b) == Norm(<<a[1] * b[2], a[2] * b[1]>>)
RInt(i) == <<i, 1>>
TwoPi == RInt(2)

\* np.linspace(start, stop, num): num samples start + i * step with
\* step = (stop - start) / (num - 1); a single sample is start.
linspace(start, stop, num) ==
    [i \in 1..num |->
        IF num = 1
        THEN start
        ELSE RAdd(start, RMul(RInt(i - 1), RDiv(RSub(stop, start), RInt(num - 1))))]

\* ang_scale = (2*np.pi)/nr_of_fieldlines
ang_scale(n) == RDiv(TwoPi, RInt(n))

angle_offset_none(n) == RInt(0)

\* the term np.pi/nr_of_fieldlines added to every angle
angle_offset(n) == RDiv(RInt(1), RInt(n))

\* angles = np.linspace(ang_scale, 2*np.pi, nr_of_fieldlines) + np.pi/nr_of_fieldlines
angles(n) ==
    LET l == linspace(ang_scale(n), TwoPi, n)
    IN  [i \in 1..n |-> RAdd(l[i], angle_offset(n))]

IsSource_NonNegative(mag) == mag >= 0

\* if q > 0: field lines start at the positive charges only
IsSource(mag) == mag > 0

\* The inner loop of field_lines: one line per angle for the charge with
\* index k at xy.  A line is kept as the seed of its integration (the charge
\* and the angle of its start point); the trajectory that odeint computes from
\* the seed is not modelled.
lines_of(k, xy, as) ==
    [i \in 1..Len(as) |-> [k |-> k, xy |-> xy, angle |-> as[i]]]

\* The outer loop of field_lines over self.get_charges(), from charge j on.
RECURSIVE lines_from(_, _, _)
lines_from(cs, j, as) ==
    IF j > Len(cs)
    THEN <<>>
    ELSE (IF IsSource(cs[j].q) THEN lines_of(j - 1, cs[j].xy, as) ELSE <<>>)
         \o lines_from(cs, j + 1, as)

\* Charges.field_lines
field_lines(qs, p, n) ==
    LET as == angles(n) IN lines_from(get_charges(qs, p), 1, as)

\* --------------------------------------------------------- widget values
\* A position attribute or event coordinates that may be None.
NoPos == [set |-> FALSE, xy |-> <<0, 0>>]
At(xy) == [set |-> TRUE, xy |-> xy]
\* An event: its handler and its coordinates (None outside the axes).
Event(type, at) == [type |-> type, at |-> at]
NoEvent == Event("none", NoPos)
\* A press inside the axes: where, the index of the charge within 0.2 of it
\* (hit, with its result kind), whether a move followed, the x of the last
\* pointer position inside the axes, and whether a release is still to come.
NoGesture ==
    [pressed |-> FALSE, open |-> FALSE, xy |-> <<0, 0>>, hit |-> None,
     moved |-> FALSE, lastx |-> 0]

\* The charge a press at xy hits: the lowest index among the charges nearest
\* to xy when that distance is below limit, None when no charge is that near.
\* (A charge at nan is at no distance.)
Within(qs, p, xy, limit) ==
    LET near == {i \in 1..Len(p) :
                    /\ ~IsNaN(p[i])
                    /\ (xy[1] - p[i][1]) * (xy[1] - p[i][1])
                       + (xy[2] - p[i][2]) * (xy[2] - p[i][2]) < limit * limit}
        d(i) == (xy[1] - p[i][1]) * (xy[1] - p[i][1])
                + (xy[2] - p[i][2]) * (xy[2] - p[i][2])
    IN  IF near = {}
        THEN None
        ELSE Index((CHOOSE i \in near :
                        \A j \in near : d(i) < d(j) \/ (d(i) = d(j) /\ i <= j)) - 1)

\* ------------------------------------------------------------- operations
Init ==
    /\ q = <<>>
    /\ pos = <<>>
    /\ call = NoCall
    /\ prev_q = <<>>
    /\ prev_pos = <<>>
    /\ removal = NoRemoval
    /\ snap = <<>>
    /\ snap_ret = <<>>
    /\ snap_alias = FALSE
    /\ fieldlines = <<>>
    /\ mouse_pressed_pos = NoPos
    /\ closest_k = None
    /\ dragging = FALSE
    /\ qadd = 0
    /\ ev = NoEvent
    /\ fault = "none"
    /\ faults = 0
    /\ gesture = NoGesture

add_charge_front(mag, xy) ==
    /\ q' = <<mag>> \o q
    /\ pos' = <<xy>> \o pos
    /\ snap_alias' = FALSE
    /\ UNCHANGED <<snap, snap_ret>>

\* Charges.add_charge: both arrays are rebound to new, longer arrays; the
\* views of an earlier get_charges keep the old position array.
add_charge(mag, xy) ==
    /\ q' = Append(q, mag)
    /\ pos' = Append(pos, xy)
    /\ snap_alias' = FALSE
    /\ UNCHANGED <<snap, snap_ret>>

\* Charges.delete_charge: with a valid index both arrays are rebound to new
\* arrays without element k; otherwise nothing happens.
delete_charge(k) ==
    IF ValidIndex(k, Len(q))
    THEN /\ q' = np_delete(q, k)
         /\ pos' = np_delete(pos, k)
         /\ snap_alias' = FALSE
         /\ UNCHANGED <<snap, snap_ret>>
    ELSE UNCHANGED <<q, pos, snap, snap_ret, snap_alias>>

\* Charges.set_position: with a valid index row k of self._pos is written in
\* place, which every view of that array sees; otherwise nothing happens.
set_position(k, xy) ==
    IF ValidIndex(k, Len(q))
    THEN /\ pos' = set_row(pos, k, xy)
         /\ snap' = IF snap_alias
                    THEN [j \in 1..Len(snap) |->
                            [snap[j] EXCEPT !.xy = pos'[j]]]
                    ELSE snap
         /\ UNCHANGED <<q, snap_ret, snap_alias>>
    ELSE UNCHANGED <<q, pos, snap, snap_ret, snap_alias>>

\* A call is logged with the charge set it found.
Log(c) ==
    /\ call' = c
    /\ prev_q' = q
    /\ prev_pos' = pos
    /\ removal' = IF /\ c.op = "add_charge"
                     /\ call.op = "delete_charge"
                     /\ call.k >= 0 /\ call.k < Len(prev_q)
                  THEN [k |-> call.k, q |-> prev_q, pos |-> prev_pos]
                  ELSE NoRemoval

AddCharge ==
    \E mag \in Magnitudes, xy \in Positions :
        /\ Len(q) < MaxCharges
        /\ add_charge(mag, xy)
        /\ Log(Call("add_charge", Len(q), mag, xy, None))
        /\ UNCHANGED <<fieldlines, gui>>

DeleteCharge ==
    \E k \in Indices :
        /\ delete_charge(k)
        /\ Log(Call("delete_charge", k, 0, <<0, 0>>, None))
        /\ UNCHANGED <<fieldlines, gui>>

SetPosition ==
    \E k \in Indices, xy \in Positions :
        /\ set_position(k, xy)
        /\ Log(Call("set_position", k, 0, xy, None))
        /\ UNCHANGED <<fieldlines, gui>>

GetClosest ==
    \E xy \in Positions, limit \in Limits :
        /\ Log(Call("get_closest", 0, limit, xy, get_closest(pos, xy, limit)))
        /\ UNCHANGED <<q, pos, snapshot, fieldlines, gui>>

\* A call of get_charges: each tuple of the returned list holds the magnitude
\* (a scalar, copied) and p[k, :], a view of row k of the live self._pos.
GetCharges ==
    /\ snap' = get_charges(q, pos)
    /\ snap_ret' = get_charges(q, pos)
    /\ snap_alias' = TRUE
    /\ Log(Call("get_charges", 0, 0, <<0, 0>>, None))
    /\ UNCHANGED <<q, pos, fieldlines, gui>>

\* The charge set under its three mutators.
Next == AddCharge \/ DeleteCharge \/ SetPosition

Spec == Init /\ [][Next]_vars

\* The charge set under its mutators and the nearest-charge query.
NextQuery == Next \/ GetClosest

SpecQuery == Init /\ [][NextQuery]_vars

\* The mutators as called beside a list obtained from get_charges; the
\* properties of that list read no argument of these calls, which are not
\* logged.
NotLogged ==
    /\ call' = NoCall
    /\ prev_q' = <<>>
    /\ prev_pos' = <<>>
    /\ removal' = NoRemoval

SnapAddCharge ==
    \E mag \in Magnitudes, xy \in Positions :
        /\ Len(q) < MaxSnapCharges
        /\ add_charge(mag, xy)
        /\ NotLogged
        /\ UNCHANGED <<fieldlines, gui>>

SnapDeleteCharge ==
    \E k \in Indices :
        /\ delete_charge(k)
        /\ NotLogged
        /\ UNCHANGED <<fieldlines, gui>>

SnapSetPosition ==
    \E k \in Indices, xy \in Positions :
        /\ set_position(k, xy)
        /\ NotLogged
        /\ UNCHANGED <<fieldlines, gui>>

\* The charge set under its mutators, with lists obtained from get_charges.
NextSnapshot == SnapAddCharge \/ SnapDeleteCharge \/ SnapSetPosition \/ GetCharges

SpecSnapshot == Init /\ [][NextSnapshot]_vars

\* The charge sets that field_lines is applied to: every sequence of up to
\* MaxCharges charges, and the four charges the widget starts with.
ExampleCharges ==
    /\ q = <<1, 1, -1, -1>>
    /\ pos = <<<<1, 0>>, <<-1, 0>>, <<0, 1>>, <<0, -1>>>>

InitTrace ==
    /\ \/ \E n \in 0..MaxCharges :
            /\ q \in [1..n -> TraceMagnitudes]
            /\ pos \in [1..n -> TracePositions]
       \/ ExampleCharges
    /\ call = NoCall
    /\ prev_q = <<>>
    /\ prev_pos = <<>>
    /\ removal = NoRemoval
    /\ snap = <<>>
    /\ snap_ret = <<>>
    /\ snap_alias = FALSE
    /\ fieldlines = <<>>
    /\ mouse_pressed_pos = NoPos
    /\ closest_k = None
    /\ dragging = FALSE
    /\ qadd = 0
    /\ ev = NoEvent
    /\ fault = "none"
    /\ faults = 0
    /\ gesture = NoGesture

\* A call of field_lines; the list get_charges returns to it is dropped when
\* it returns.
FieldLines ==
    \E n \in LineCounts :
        /\ fieldlines' = field_lines(q, pos, n)
        /\ Log(Call("field_lines", 0, n, <<0, 0>>, None))
        /\ UNCHANGED <<q, pos, snapshot, gui>>

NextTrace == FieldLines

SpecTrace == InitTrace /\ [][NextTrace]_vars

\* ----------------------------------------------------------------- widget
\* round(x) of Python for x = t/10: the nearest integer, a tie to the even one.
py_round(t) ==
    LET f == t \div 10
        r == t % 10
    IN  IF r < 5 THEN f
        ELSE IF r > 5 THEN f + 1
        ELSE IF f % 2 = 0 THEN f ELSE f + 1

\* MyMplWidget.__init__: the attributes and the four charges to start with.
InitGui ==
    /\ q = <<1, 1, -1, -1>>
    /\ pos = <<<<10, 0>>, <<-10, 0>>, <<0, 10>>, <<0, -10>>>>
    /\ call = NoCall
    /\ prev_q = <<>>
    /\ prev_pos = <<>>
    /\ removal = NoRemoval
    /\ snap = <<>>
    /\ snap_ret = <<>>
    /\ snap_alias = FALSE
    /\ fieldlines = <<>>
    /\ mouse_pressed_pos = NoPos
    /\ closest_k = None
    /\ dragging = FALSE
    /\ qadd = 0
    /\ ev = NoEvent
    /\ fault = "none"
    /\ faults = 0
    /\ gesture = NoGesture

\* plot_fieldlines (also through drag_replot) calls field_lines, whose
\* get_charges reads p[k, :] for every k of self._q: an IndexError when
\* self._q is longer than self._pos.  What it draws is not modelled.
plot_raises(qs, p) == Len(qs) > Len(p)

\* add_charge(q, None): self._q is extended, then np.vstack of the (n, 2)
\* positions with np.array([None]) raises ValueError and self._pos stays.
add_charge_none(mag) ==
    /\ q' = Append(q, mag)
    /\ UNCHANGED <<pos, snapshot>>

\* The exceptions of the handlers are printed by the callback registry of
\* matplotlib and the event loop goes on; the widget is followed through
\* MaxFaults of them.
Faulted ==
    faults' = IF fault' # "none" THEN faults + 1 ELSE faults

\* MyMplWidget.on_mouse_press
OnMousePress ==
    \E at \in EventCoords :
        /\ faults < MaxFaults
        /\ ev' = Event("press", at)
        /\ IF at.set
           THEN LET k == get_closest(pos, at.xy, HitLimit)
                IN  /\ mouse_pressed_pos' = At(at.xy)
                    /\ Log(Call("get_closest", 0, HitLimit, at.xy, k))
                    /\ gesture' = [pressed |-> TRUE, open |-> TRUE, xy |-> at.xy,
                                   hit |-> Within(q, pos, at.xy, HitLimit),
                                   moved |-> FALSE, lastx |-> at.xy[1]]
                    /\ IF k = ValueError
                       THEN /\ fault' = "ValueError"
                            /\ UNCHANGED <<closest_k, dragging>>
                       ELSE /\ closest_k' = k
                            /\ dragging' = FALSE
                            /\ fault' = "none"
           ELSE /\ Log(NoCall)
                /\ fault' = "none"
                /\ gesture' = IF gesture.open THEN gesture ELSE NoGesture
                /\ UNCHANGED <<mouse_pressed_pos, closest_k, dragging>>
        /\ Faulted
        /\ UNCHANGED <<q, pos, snapshot, fieldlines, qadd>>

\* MyMplWidget.on_mouse_move
OnMouseMove ==
    \E at \in EventCoords :
        /\ faults < MaxFaults
        /\ ev' = Event("move", at)
        /\ gesture' = IF gesture.open
                      THEN [gesture EXCEPT !.moved = TRUE,
                                           !.lastx = IF at.set THEN at.xy[1] ELSE @]
                      ELSE NoGesture
        /\ IF ~mouse_pressed_pos.set
           THEN /\ Log(NoCall)
                /\ fault' = "none"
                /\ UNCHANGED <<q, pos, snapshot, qadd, dragging>>
           ELSE IF closest_k = None
           THEN \* event.xdata - self.mouse_pressed_pos[0]: TypeError on None
                /\ qadd' = IF at.set THEN at.xy[1] - mouse_pressed_pos.xy[1] ELSE qadd
                /\ fault' = IF at.set THEN "none" ELSE "TypeError"
                /\ Log(NoCall)
                /\ UNCHANGED <<q, pos, snapshot, dragging>>
           ELSE \* a None written into the float array is stored as nan
                LET xy == IF at.set THEN at.xy ELSE <<NaN, NaN>>
                IN  /\ dragging' = TRUE
                    /\ set_position(closest_k.val, xy)
                    /\ Log(Call("set_position", closest_k.val, 0, xy, None))
                    /\ fault' = IF closest_k.val >= Len(pos) \/ plot_raises(q', pos')
                                THEN "IndexError" ELSE "none"
                    /\ UNCHANGED qadd
        /\ Faulted
        /\ UNCHANGED <<mouse_pressed_pos, closest_k, fieldlines>>

\* The end of on_mouse_release: plot_fieldlines(), then the attributes are
\* reset unless plot_fieldlines raised.
PlotAndReset ==
    IF plot_raises(q', pos')
    THEN /\ fault' = "IndexError"
         /\ UNCHANGED <<mouse_pressed_pos, closest_k, qadd>>
    ELSE /\ fault' = "none"
         /\ mouse_pressed_pos' = NoPos
         /\ closest_k' = None
         /\ qadd' = 0

\* MyMplWidget.on_mouse_release
OnMouseRelease ==
    /\ faults < MaxFaults
    /\ ev' = Event("release", NoPos)
    /\ gesture' = IF gesture.open THEN [gesture EXCEPT !.open = FALSE] ELSE NoGesture
    /\ IF closest_k = None
       THEN /\ Len(q) < MaxGuiCharges
            /\ IF mouse_pressed_pos.set
               THEN /\ add_charge(py_round(qadd), mouse_pressed_pos.xy)
                    /\ Log(Call("add_charge", Len(q), py_round(qadd),
                                mouse_pressed_pos.xy, None))
                    /\ PlotAndReset
               ELSE /\ add_charge_none(py_round(qadd))
                    /\ Log(Call("add_charge", Len(q), py_round(qadd), <<0, 0>>,
                                ValueError))
                    /\ fault' = "ValueError"
                    /\ UNCHANGED <<mouse_pressed_pos, closest_k, qadd>>
       ELSE IF dragging = FALSE
       THEN /\ delete_charge(closest_k.val)
            /\ Log(Call("delete_charge", closest_k.val, 0, <<0, 0>>, None))
            /\ IF ValidIndex(closest_k.val, Len(q)) /\ closest_k.val >= Len(pos)
               THEN \* np.delete(self._pos, k, 0) raises after self._q was cut
                    /\ fault' = "IndexError"
                    /\ UNCHANGED <<mouse_pressed_pos, closest_k, qadd>>
               ELSE PlotAndReset
       ELSE /\ Log(NoCall)
            /\ UNCHANGED <<q, pos, snapshot>>
            /\ PlotAndReset
    /\ Faulted
    /\ UNCHANGED <<dragging, fieldlines>>

\* The widget under every sequence of mouse events.
NextGui == OnMousePress \/ OnMouseMove \/ OnMouseRelease

SpecGui == InitGui /\ [][NextGui]_vars

\* ------------------------------------------------------------------ claims
\* The charge with Python index i of a charge set, as a (magnitude, position) pair.
Charge(qs, p, i) == <<qs[i + 1], p[i + 1]>>
InRange(k, n) == k \in 0..(n - 1)
Aligned == Len(q) = Len(pos)

\* The squared Euclidean distance of two points.
Dist2(a, b) == (a[1] - b[1]) * (a[1] - b[1]) + (a[2] - b[2]) * (a[2] - b[2])
\* The least squared distance of a point to the charges of a non-empty set.
MinDist2(p, xy) ==
    CHOOSE m \in {Dist2(xy, p[i]) : i \in 1..Len(p)} :
        \A i \in 1..Len(p) : m <= Dist2(xy, p[i])
\* The lowest Python index of a charge at the least distance.
LowestNearest(p, xy) ==
    (CHOOSE i \in 1..Len(p) :
        /\ Dist2(xy, p[i]) = MinDist2(p, xy)
        /\ \A j \in 1..(i - 1) : Dist2(xy, p[j]) # MinDist2(p, xy)) - 1
\* The least Euclidean distance is strictly less than radius: a distance is
\* not negative, so this needs radius > 0 and then compares the squares.
NearerThan(p, xy, radius) == radius > 0 /\ MinDist2(p, xy) < radius * radius

\* C1: on a non-empty charge set get_closest(point, radius) returns the lowest
\* index of a charge at the least Euclidean distance when that distance is
\* strictly less than radius, and None whenever it is >= radius.
C1_NearestWithinRadius ==
    (call.op = "get_closest" /\ Len(pos) > 0)
    => IF NearerThan(pos, call.xy, call.mag)
       THEN call.ret = Index(LowestNearest(pos, call.xy))
       ELSE call.ret = None

\* The same for radius >= 0 only, where the code agrees with the claim.
GetClosestNonNegativeLimit ==
    (call.op = "get_closest" /\ Len(pos) > 0 /\ call.mag >= 0)
    => IF NearerThan(pos, call.xy, call.mag)
       THEN call.ret = Index(LowestNearest(pos, call.xy))
       ELSE call.ret = None

\* C2: get_closest is total: on every charge set that add_charge,
\* delete_charge and set_position can produce, the empty one included, it
\* returns a valid index or None and raises nothing.
C2_GetClosestTotal ==
    call.op = "get_closest"
    => \/ call.ret = None
       \/ call.ret.kind = "index" /\ InRange(call.ret.val, Len(q))

\* C3: delete_charge(index) and set_position(index, position) with an index
\* outside 0 <= index < size (negative, equal to size, larger) change nothing:
\* the number of charges and every magnitude and position stay as they were.
C3_OutOfRangeIsNoOp ==
    (/\ call.op \in {"delete_charge", "set_position"}
     /\ ~InRange(call.k, Len(prev_q)))
    => (q = prev_q /\ pos = prev_pos)

\* A delete_charge(-1) on a non-empty charge set, and a set_position at
\* index = size on a non-empty charge set, have both been made.
C3_Witness ==
    /\ Len(prev_q) >= 1
    /\ \/ call.op = "delete_charge" /\ call.k = -1
       \/ call.op = "set_position" /\ call.k = Len(prev_q)
                                   /\ call.xy # prev_pos[Len(prev_pos)]

\* C4: delete_charge(k) with 0 <= k < size removes exactly charge k: one charge
\* fewer, the charges below k keep their index, each charge i > k moves to
\* i - 1, and every remaining charge keeps its (magnitude, position) pair.
C4_DeleteRemovesExactlyK ==
    (call.op = "delete_charge" /\ InRange(call.k, Len(prev_q)))
    => /\ Len(q) = Len(prev_q) - 1
       /\ Aligned
       /\ \A i \in 0..(Len(prev_q) - 1) :
            /\ i < call.k => Charge(q, pos, i) = Charge(prev_q, prev_pos, i)
            /\ i > call.k => Charge(q, pos, i - 1) = Charge(prev_q, prev_pos, i)

\* The middle one of three pairwise different charges has been deleted.
C4_Witness ==
    /\ call.op = "delete_charge"
    /\ call.k = 1
    /\ Len(prev_q) = 3
    /\ Charge(prev_q, prev_pos, 0) # Charge(prev_q, prev_pos, 1)
    /\ Charge(prev_q, prev_pos, 1) # Charge(prev_q, prev_pos, 2)
    /\ Charge(prev_q, prev_pos, 0) # Charge(prev_q, prev_pos, 2)

\* C6: set_position(k, position) with a valid index k changes only the
\* position of charge k: the number of charges, every magnitude and the
\* position of every other charge stay as they were.
C6_SetPositionFrame ==
    (call.op = "set_position" /\ InRange(call.k, Len(prev_q)))
    => /\ q = prev_q
       /\ Len(pos) = Len(prev_pos)
       /\ pos[call.k + 1] = call.xy
       /\ \A i \in 0..(Len(prev_q) - 1) :
            i # call.k => pos[i + 1] = prev_pos[i + 1]

\* The middle one of three charges has been moved to a position that none of
\* the three had.
C6_Witness ==
    /\ call.op = "set_position"
    /\ call.k = 1
    /\ Len(prev_q) = 3
    /\ \A i \in 1..3 : prev_pos[i] # call.xy

\* add_charge appends: the new charge has index previous_size and every
\* earlier charge keeps its index, magnitude and position.
AddAppends ==
    call.op = "add_charge"
    => /\ Len(q) = Len(prev_q) + 1
       /\ Aligned
       /\ Charge(q, pos, Len(prev_q)) = <<call.mag, call.xy>>
       /\ \A i \in 0..(Len(prev_q) - 1) :
            Charge(q, pos, i) = Charge(prev_q, prev_pos, i)

\* The last two calls were delete_charge(k), with k valid and not the last
\* index, and then add_charge of a charge identical to the one removed.
RemovedThenReAdded ==
    /\ call.op = "add_charge"
    /\ removal.k >= 0
    /\ removal.k # Len(removal.q) - 1
    /\ <<call.mag, call.xy>> = Charge(removal.q, removal.pos, removal.k)

\* The re-added charge is at the last index, which is not the index it had.
ReAddedAtLastIndexNotK ==
    /\ Charge(q, pos, Len(q) - 1) = <<call.mag, call.xy>>
    /\ Len(q) - 1 # removal.k

\* C5 as claimed: add_charge appends; and delete_charge(k) followed by the add
\* of an identical charge puts it at the last index, not at k, and does not
\* give back the original sequence, whenever k was not the last index.
C5_AsClaimed ==
    /\ AddAppends
    /\ RemovedThenReAdded
       => /\ ReAddedAtLastIndexNotK
          /\ <<q, pos>> # <<removal.q, removal.pos>>

\* C5 amended: add_charge appends; and delete_charge(k) followed by the add of
\* an identical charge puts it at the last index, not at k, whenever k was not
\* the last index; the original sequence is not given back whenever some
\* charge after index k differs from the removed one (and it is given back
\* when every charge after index k is identical to the removed one).
C5_AppendAndReAdd ==
    /\ AddAppends
    /\ RemovedThenReAdded
       => /\ ReAddedAtLastIndexNotK
          /\ (<<q, pos>> # <<removal.q, removal.pos>>)
             <=> \E i \in (removal.k + 1)..(Len(removal.q) - 1) :
                    Charge(removal.q, removal.pos, i)
                        # Charge(removal.q, removal.pos, removal.k)

\* Charge 0 of three was deleted and an identical charge added again, where
\* the two charges after it differ from it: the sequence is not the original.
C5_Witness ==
    /\ RemovedThenReAdded
    /\ removal.k = 0
    /\ Len(removal.q) = 3
    /\ Charge(removal.q, removal.pos, 1) # Charge(removal.q, removal.pos, 0)
    /\ <<q, pos>> # <<removal.q, removal.pos>>

\* C7: get_charges returns the (magnitude, position) sequence as of the call,
\* and a list already returned is not changed by a later add_charge,
\* delete_charge or set_position.
C7_SnapshotNotAliased ==
    /\ call.op = "get_charges" => snap = get_charges(q, pos)
    /\ snap = snap_ret

\* The Python indices of the charges that seed lines, and the angles of the
\* lines of charge k in the order of the returned list.
Sources == {k \in 0..(Len(q) - 1) : q[k + 1] > 0}
LinesOf(k) == SelectSeq(fieldlines, LAMBDA l : l.k = k)
\* a and b differ by a whole multiple of 2*pi
Congruent(a, b) ==
    LET d == RSub(a, b) IN d[2] = 1 /\ d[1] % 2 = 0
\* a is a whole multiple of b
MultipleOf(a, b) == RDiv(a, b)[2] = 1

\* C8: for every charge set and every n >= 1, field_lines returns exactly
\* n * (number of charges with magnitude > 0) lines, charge by charge in
\* collection order; charges of zero or negative magnitude seed no line.
C8_LineCount ==
    call.op = "field_lines"
    => /\ Len(fieldlines) = call.mag * Cardinality(Sources)
       /\ \A i \in 1..Len(fieldlines) :
            /\ fieldlines[i].k \in Sources
            /\ fieldlines[i].xy = pos[fieldlines[i].k + 1]
       /\ \A k \in Sources : Len(LinesOf(k)) = call.mag
       /\ \A i \in 1..(Len(fieldlines) - 1) :
            fieldlines[i].k <= fieldlines[i + 1].k

\* The charges +1, +1, -1, -1 with n = 32 have given 64 lines.
C8_Witness ==
    /\ call.op = "field_lines"
    /\ call.mag = DefaultLines
    /\ q = <<1, 1, -1, -1>>
    /\ Len(fieldlines) = 64

\* C9: for every n >= 1 the n seed angles around each positive charge are
\* pairwise distinct modulo 2*pi, evenly spaced with step 2*pi/n and offset by
\* half the step (pi/n), so that none is congruent to 0 modulo 2*pi.
C9_SeedAngles ==
    call.op = "field_lines"
    => \A k \in Sources :
        LET ls == LinesOf(k)
            n == call.mag
            step == RDiv(TwoPi, RInt(n))
            half == RDiv(RInt(1), RInt(n))
        IN  /\ Len(ls) = n
            /\ \A i, j \in 1..n :
                 i # j => ~Congruent(ls[i].angle, ls[j].angle)
            /\ \A i \in 1..(n - 1) : RSub(ls[i + 1].angle, ls[i].angle) = step
            /\ \A i \in 1..n : MultipleOf(RSub(ls[i].angle, half), step)
            /\ \A i \in 1..n : ~Congruent(ls[i].angle, RInt(0))

\* field_lines has seeded 8 lines around a positive charge.
C9_Witness ==
    /\ call.op = "field_lines"
    /\ call.mag = DragLines
    /\ Sources # {}
    /\ Len(fieldlines) = DragLines * Cardinality(Sources)

\* C10: with the line counts the program uses (32 by default, 8 while
\* dragging) the lines of each positive charge include one whose seed angle
\* is pi/4 modulo 2*pi.
C10_LineAtQuarterPi ==
    (call.op = "field_lines" /\ call.mag \in {DefaultLines, DragLines})
    => \A k \in Sources :
        \E i \in 1..Len(fieldlines) :
            /\ fieldlines[i].k = k
            /\ Congruent(fieldlines[i].angle, <<1, 4>>)

\* With 4 lines per charge there is a line at pi/4.
QuarterPiWithFourLines ==
    (call.op = "field_lines" /\ call.mag = 4)
    => \A k \in Sources :
        \E i \in 1..Len(fieldlines) :
            /\ fieldlines[i].k = k
            /\ Congruent(fieldlines[i].angle, <<1, 4>>)

\* A sequence without its element of Python index k.
Without(s, k) == SubSeq(s, 1, k) \o SubSeq(s, k + 2, Len(s))
AttributesReset == mouse_pressed_pos = NoPos /\ closest_k = None /\ qadd = 0
\* What the release that closed the gesture did to the charge set it found.
GestureOutcome ==
    IF gesture.hit # None
    THEN IF ~gesture.moved
         THEN /\ q = Without(prev_q, gesture.hit.val)
              /\ pos = Without(prev_pos, gesture.hit.val)
         ELSE q = prev_q /\ pos = prev_pos
    ELSE /\ q = Append(prev_q, py_round(gesture.lastx - gesture.xy[1]))
         /\ pos = Append(prev_pos, gesture.xy)
\* While a charge that was hit is dragged, it is where the pointer is.
DraggedFollowsPointer ==
    (ev.type = "move" /\ ev.at.set /\ gesture.open /\ gesture.hit # None)
    => /\ InRange(gesture.hit.val, Len(pos))
       /\ pos[gesture.hit.val + 1] = ev.at.xy

\* C11: a gesture that starts with a press inside the axes ends, on release,
\* as the press and the moves decide: a charge hit and no move - exactly that
\* charge is deleted; a charge hit and a move - its position follows the
\* pointer and no charge is added or deleted; no charge hit - one charge is
\* added at the press position with magnitude round(last pointer x - press x).
\* After every release mouse_pressed_pos and closest_k are None and qadd is 0.
C11_GestureOutcome ==
    /\ (ev.type = "release" /\ gesture.pressed) => GestureOutcome
    /\ ev.type = "release" => AttributesReset
    /\ DraggedFollowsPointer

\* C12: under every sequence of press, move and release events the handlers
\* call the charge set with well-formed arguments only: a closest_k that is
\* not None is a valid index and still denotes the charge that was pressed
\* (no handler since the press has added or removed a charge or moved another
\* one), set_position is given coordinates that are not None, and when
\* on_mouse_release adds a charge, mouse_pressed_pos is not None but the
\* position of the preceding press inside the axes.
C12_WellFormedCalls ==
    /\ closest_k # None
       => /\ InRange(closest_k.val, Len(q))
          /\ InRange(closest_k.val, Len(pos))
          /\ ev.type # "press"
             => /\ q = prev_q
                /\ Len(pos) = Len(prev_pos)
                /\ \A i \in 1..Len(pos) :
                     i # closest_k.val + 1 => pos[i] = prev_pos[i]
    /\ (ev.type = "move" /\ call.op = "set_position") => ev.at.set
    /\ (ev.type = "release" /\ call.op = "add_charge")
       => /\ call.ret # ValueError
          /\ gesture.pressed
          /\ call.xy = gesture.xy

====
